---- MODULE Spec2Model ----
(***************************************************************************)
(* State-machine model of src/src/Auth0Client.ts: the PKCE redirect        *)
(* callback, the silent token acquisition guarded by the browser-tabs-lock *)
(* lock, and the credential cache / authenticated flag they read and write.*)
(*                                                                         *)
(* Every `await` of the source is a suspension point, so every handler is  *)
(* cut into one action per stretch of code between two awaits.  A task     *)
(* (Procs) runs one public method from its call to its completion.         *)
(***************************************************************************)
EXTENDS Integers, Sequences, FiniteSets, TLC

\* ---------------------------------------------------------------- bounds
NumProcs == 2          \* concurrent tasks (callers), over all tabs
NumTabs  == 2          \* browser contexts, each with its own `lock` object
MaxTx    == 2          \* authorize attempts (buildAuthorizeUrl calls)
MaxTicks == 1          \* clock advances, each of ExpiryAdjustment seconds

\* ------------------------------------------------------ program constants
ExpiryAdjustment == 60 \* getTokenSilently: cache.get(key, 60)

Procs == 1..NumProcs
Tabs  == 1..NumTabs
NoTab == 0

Undefined == "undefined"
CLIENT_ID == "client"
DEFAULT_SCOPE == <<"openid", "profile", "email">>
DefaultRedirectUri == "app://callback"
NoToken == 0
NoAppState == <<>>     \* an appState that is undefined

\* ---------------------------------------------------------------- inputs
\* per-call scope and audience options (an absent option is "undefined", an
\* absent scope string the empty list): none, or an API and a scope of it
CallOptions == {[scope |-> <<>>, audience |-> Undefined],
                [scope |-> <<"read">>, audience |-> "api"]}
\* expires_in of a token response, in seconds
ExpiresIn     == 2 * ExpiryAdjustment

VARIABLES
    options,       \* Auth0ClientOptions given to the constructor
    cache,         \* this.cache: cache key -> credential record (persisted)
    authFlag,      \* ClientStorage 'auth0.is.authenticated'
    lockHolder,    \* id of the Lock object holding the key, NoTab if free
    transactions,  \* this.transactionManager: state -> transaction
    now,           \* Date.now() in seconds
    issued,        \* tokens issued by the token endpoint so far
    stateCount,    \* state strings createRandomString has produced so far
    pc,            \* position of each task in its handler
    call,          \* the method a task runs and its arguments
    frame,         \* the handler's local variables
    ret,           \* how the call completed
    exch           \* token endpoint requests made by each task

vars == <<options, cache, authFlag, lockHolder, transactions, now, issued,
          stateCount,
          pc, call, frame, ret, exch>>

\* ------------------------------------------------------------ scope.ts
RECURSIVE Dedupe(_)
Dedupe(s) ==
    IF s = <<>> THEN <<>>
    ELSE LET init == Dedupe(SubSeq(s, 1, Len(s) - 1))
             x == s[Len(s)]
         IN  IF \E i \in 1..Len(init) : init[i] = x THEN init
             ELSE Append(init, x)

\* getUniqueScopes(...scopes): the scope lists joined, first occurrences kept
getUniqueScopes(a, b, c) == Dedupe(a \o b \o c)

\* ------------------------------------------------------- constructor
\* this.defaultScope
defaultScope == getUniqueScopes(<<"openid">>, DEFAULT_SCOPE, <<>>)

\* this.scope: options.scope, with offline_access when refresh tokens are on
thisScope ==
    IF options.useRefreshTokens
    THEN getUniqueScopes(options.scope, <<"offline_access">>, <<>>)
    ELSE options.scope

\* ------------------------------------------------------------ cache.ts
CacheKey(audience, scope) == <<CLIENT_ID, audience, scope>>

OrDefault(audience) == IF audience = Undefined THEN "default" ELSE audience

NoEntry == [access_token |-> NoToken, refresh_token |-> NoToken, expiresAt |-> 0]

\* cache.get(key, expiryAdjustmentSeconds): a record within the adjustment
\* of its expiry is treated as missing, except for its refresh token
cacheGet(key, adjust) ==
    IF key \notin DOMAIN cache THEN NoEntry
    ELSE IF cache[key].expiresAt - now > adjust THEN cache[key]
    ELSE [NoEntry EXCEPT !.refresh_token = cache[key].refresh_token]

\* cache.save(entry): the record is stored under (client_id, audience, scope)
cacheSave(key, entry) ==
    [k \in DOMAIN cache \cup {key} |-> IF k = key THEN entry ELSE cache[k]]

\* --------------------------------------------------------------- tasks
NoCall == [op |-> "none", tab |-> NoTab, ignoreCache |-> FALSE,
           audience |-> Undefined, scope |-> <<>>,
           query |-> FALSE, state |-> 0, error |-> Undefined,
           federated |-> FALSE, localOnly |-> FALSE, given |-> FALSE]

\* asked records the options the login was built with; no handler reads it.
NoTransaction == [nonce |-> 0, code_verifier |-> 0, appState |-> NoAppState,
                  scope |-> <<>>, audience |-> Undefined,
                  redirect_uri |-> Undefined,
                  asked |-> [scope |-> <<>>, audience |-> Undefined]]

NoResult == [kind |-> "none", access_token |-> NoToken, refresh_token |-> NoToken,
             expires_in |-> 0, audience |-> Undefined, scope |-> <<>>]

\* the code verifier and redirect URI of a token request not yet built
NoTokenOptions == [code_verifier |-> 0, redirect_uri |-> Undefined]

Pending == [kind |-> "pending", value |-> NoToken, error |-> "", appState |-> NoAppState]

\* acquired, entered, fromCache, waiters, found, alone, mark and exchanging
\* record what happened in the call; the handler itself does not read them.
NoFrame == [scope |-> <<>>, audience |-> Undefined, acquired |-> FALSE,
            entered |-> FALSE, fromCache |-> FALSE, waiters |-> {},
            alone |-> FALSE, mark |-> 0, exchanging |-> {},
            refresh_token |-> NoToken, authResult |-> NoResult,
            found |-> FALSE, transaction |-> NoTransaction,
            tokenOptions |-> NoTokenOptions,
            completion |-> Pending]

Returned(v, a) == [kind |-> "returned", value |-> v, error |-> "", appState |-> a]
Threw(e, a)    == [kind |-> "threw", value |-> NoToken, error |-> e, appState |-> a]

\* ---------------------------------------------------------------- Init
\* The key every call without per-call scope and audience reads and writes.
SessionKey ==
    CacheKey(OrDefault(options.audience),
             getUniqueScopes(defaultScope, thisScope, <<>>))

\* The persisted cache at construction: empty, or the record a previous
\* session left (token 1), expired or not, with or without a refresh token.
Init ==
    /\ options \in [useRefreshTokens : BOOLEAN, audience : {Undefined},
                    scope : {<<>>}, redirect_uri : {DefaultRedirectUri}]
    /\ \/ /\ cache = <<>>
          /\ authFlag = FALSE
          /\ issued = 0
       \/ /\ \E r \in {NoToken} \cup (IF options.useRefreshTokens THEN {1} ELSE {}),
                e \in {0, ExpiresIn} :
                cache = [k \in {SessionKey} |->
                           [access_token |-> 1, refresh_token |-> r, expiresAt |-> e]]
          /\ authFlag = TRUE
          /\ issued = 1
    /\ lockHolder = NoTab
    /\ transactions = <<>>
    /\ stateCount = 0
    /\ now = 0
    /\ pc = [p \in Procs |-> "idle"]
    /\ call = [p \in Procs |-> NoCall]
    /\ frame = [p \in Procs |-> NoFrame]
    /\ ret = [p \in Procs |-> Pending]
    /\ exch = [p \in Procs |-> 0]

\* A task starts only after the tasks before it did (the tasks are alike).
CanStart(p) ==
    /\ pc[p] = "idle"
    /\ \A q \in Procs : q < p => pc[q] # "idle"

\* The browser context a new call is made in: one already in use, or the
\* next unused one (the contexts are alike).
FreshTabs ==
    {t \in Tabs : \A u \in Tabs : u < t => \E q \in Procs : call[q].tab = u}

\* What is left of a call's frame once it completed: the record of what
\* happened, the locals gone.
Finished(f) ==
    [NoFrame EXCEPT !.acquired = f.acquired, !.entered = f.entered,
                    !.fromCache = f.fromCache, !.waiters = f.waiters,
                    !.found = f.found, !.alone = f.alone, !.mark = f.mark,
                    !.exchanging = f.exchanging]

\* What is left of a call's arguments once it completed: the method, and
\* the arguments that decided its path.
Ended(c) ==
    [NoCall EXCEPT !.op = c.op, !.ignoreCache = c.ignoreCache,
                   !.audience = c.audience, !.query = c.query,
                   !.state = c.state, !.error = c.error,
                   !.federated = c.federated, !.localOnly = c.localOnly,
                   !.given = c.given]

\* Date.now() advances.
Tick ==
    /\ now < MaxTicks * ExpiryAdjustment
    /\ now' = now + ExpiryAdjustment
    /\ UNCHANGED <<options, cache, authFlag, lockHolder, transactions, issued,
                   stateCount, pc, call, frame, ret, exch>>

\* ------------------------------------------------------ token endpoint
\* oauthToken answers: a transport or grant failure, a response whose ID
\* token fails verification, or tokens; a refresh token comes with them
\* when the scope asked for offline_access.
TokenResponses == {"failure", "bad_id_token", "tokens"}

Tokens(resp, audience, scope) ==
    [kind |-> "tokens", access_token |-> issued + 1,
     refresh_token |-> IF \E i \in 1..Len(scope) : scope[i] = "offline_access"
                       THEN issued + 1 ELSE NoToken,
     expires_in |-> ExpiresIn, audience |-> audience, scope |-> scope]

\* the record cache.save stores for an entry, and the key it stores it under
EntryKey(entry) == CacheKey(entry.audience, entry.scope)
EntryRecord(entry) ==
    [access_token |-> entry.access_token, refresh_token |-> entry.refresh_token,
     expiresAt |-> now + entry.expires_in]

\* --------------------------------------------------- browser-tabs-lock
\* `lock` is one object per browser context, shared by every call made in
\* that context.  acquireLock(key, timeout) resolves to true once the key is
\* free and taken, and to false when the timeout passes first; releaseLock
\* removes the key if this object holds it.
AcquireLock(p) ==
    /\ lockHolder = NoTab
    /\ lockHolder' = call[p].tab

AcquireTimeout(p) ==
    /\ lockHolder # NoTab
    /\ lockHolder' = lockHolder

\* A way out of the try block that leaves the lock as it is.
ReleaseSkipped(p) == lockHolder' = lockHolder

ReleaseLock(p) ==
    lockHolder' = IF lockHolder = call[p].tab THEN NoTab ELSE lockHolder

\* ----------------------------------------------------- getTokenSilently
\* getTokenSilently entered with options o: the normalisation of the
\* options, up to the first await.
GTS_Enter(p, ic, o) ==
    /\ frame' = [frame EXCEPT ![p] =
           [NoFrame EXCEPT
              !.audience = IF o.audience # Undefined THEN o.audience
                           ELSE options.audience,
              !.scope = getUniqueScopes(defaultScope, thisScope, o.scope)]]
    /\ pc' = [pc EXCEPT ![p] = IF ic THEN "gts_acquire" ELSE "gts_cache"]

\* A call of getTokenSilently.
GTS_Start(p) ==
    /\ CanStart(p)
    /\ \E t \in FreshTabs, ic \in BOOLEAN, o \in CallOptions :
          /\ call' = [call EXCEPT ![p] =
                 [NoCall EXCEPT !.op = "getTokenSilently", !.tab = t,
                                !.ignoreCache = ic, !.audience = o.audience,
                                !.scope = o.scope]]
          /\ GTS_Enter(p, ic, o)
    /\ UNCHANGED <<options, cache, authFlag, lockHolder, transactions, now,
                   issued, stateCount, ret, exch>>

\* A read that never finds a usable record.
CacheNeverHit(p) == FALSE

\* if (cache && cache.access_token) return cache.access_token;
CacheHit(p) ==
    cacheGet(CacheKey(OrDefault(frame[p].audience), frame[p].scope),
             ExpiryAdjustment).access_token # NoToken

\* await this.cache.get(key, 60) and what follows it.
GTS_CacheGet(p) ==
    /\ pc[p] = "gts_cache"
    /\ IF CacheHit(p)
       THEN /\ frame' = [frame EXCEPT
                  ![p].fromCache = TRUE,
                  ![p].completion = Returned(
                      cacheGet(CacheKey(OrDefault(frame[p].audience), frame[p].scope),
                               ExpiryAdjustment).access_token, NoAppState)]
            /\ pc' = [pc EXCEPT ![p] = "gts_release"]
       ELSE /\ frame' = frame
            /\ pc' = [pc EXCEPT ![p] = "gts_acquire"]
    /\ UNCHANGED <<options, cache, authFlag, lockHolder, transactions, now,
                   issued, stateCount, call, ret, exch>>

\* this.options.useRefreshTokens && !options.audience
CanUseRefreshToken(p) ==
    options.useRefreshTokens /\ call[p].audience = Undefined

\* await lock.acquireLock(KEY, 5000): its result is not looked at.  Then
\* either _getTokenUsingRefreshToken is entered (it awaits cache.get), or
\* authResult is the Error object, constructed and not thrown, and
\* cache.save is awaited.
GTS_Acquire(p) ==
    /\ pc[p] = "gts_acquire"
    /\ \E got \in BOOLEAN :
          /\ IF got THEN AcquireLock(p) ELSE AcquireTimeout(p)
          /\ frame' = [frame EXCEPT
                ![p].acquired = got,
                ![p].entered = TRUE,
                ![p].authResult =
                    IF CanUseRefreshToken(p) THEN NoResult
                    ELSE [NoResult EXCEPT !.kind = "error_object"]]
    /\ pc' = [pc EXCEPT ![p] =
                IF CanUseRefreshToken(p) THEN "gts_rt_cache" ELSE "gts_save"]
    /\ UNCHANGED <<options, cache, authFlag, transactions, now, issued,
                   stateCount, call, ret, exch>>

\* _getTokenUsingRefreshToken: options.scope
RefreshScope(p) == getUniqueScopes(defaultScope, options.scope, frame[p].scope)

\* _getTokenUsingRefreshToken: await this.cache.get(key); without a refresh
\* token it returns undefined, otherwise it sends the refresh_token grant.
GTS_RefreshCacheGet(p) ==
    /\ pc[p] = "gts_rt_cache"
    /\ LET rt == cacheGet(CacheKey(OrDefault(frame[p].audience), RefreshScope(p)),
                          0).refresh_token
       IN  IF rt = NoToken
           THEN /\ frame' = [frame EXCEPT
                      ![p].authResult = [NoResult EXCEPT !.kind = "undefined"]]
                /\ pc' = [pc EXCEPT ![p] = "gts_save"]
                /\ exch' = exch
           ELSE /\ frame' = [frame EXCEPT
                      ![p].refresh_token = rt,
                      ![p].waiters = {q \in Procs \ {p} : pc[q] = "gts_acquire"}]
                /\ pc' = [pc EXCEPT ![p] = "gts_exchange"]
                /\ exch' = [exch EXCEPT ![p] = @ + 1]
    /\ UNCHANGED <<options, cache, authFlag, lockHolder, transactions, now,
                   issued, stateCount, call, ret>>

\* The answer of oauthToken, then this._verifyIdToken(tokenResult.id_token);
\* back in getTokenSilently, cache.save is awaited.
GTS_Exchange(p) ==
    /\ pc[p] = "gts_exchange"
    /\ \E resp \in TokenResponses :
          CASE resp = "failure" ->
                  /\ frame' = [frame EXCEPT ![p].completion = Threw("TransportError", NoAppState)]
                  /\ pc' = [pc EXCEPT ![p] = "gts_release"]
                  /\ issued' = issued
            [] resp = "bad_id_token" ->
                  /\ frame' = [frame EXCEPT ![p].completion = Threw("TokenVerificationError", NoAppState)]
                  /\ pc' = [pc EXCEPT ![p] = "gts_release"]
                  /\ issued' = issued
            [] OTHER ->
                  /\ frame' = [frame EXCEPT ![p].authResult =
                         Tokens(resp, OrDefault(frame[p].audience), RefreshScope(p))]
                  /\ pc' = [pc EXCEPT ![p] = "gts_save"]
                  /\ issued' = issued + 1
    /\ UNCHANGED <<options, cache, authFlag, lockHolder, transactions, now,
                   stateCount, call, ret, exch>>

\* await this.cache.save({client_id, ...authResult}): spreading the Error
\* object or undefined leaves client_id alone, so the record has no tokens
\* and no audience or scope in its key.  The storage may fail.
GTS_Save(p) ==
    /\ pc[p] = "gts_save"
    /\ \/ /\ cache' = cacheSave(EntryKey(frame[p].authResult),
                                EntryRecord(frame[p].authResult))
          /\ pc' = [pc EXCEPT ![p] = "gts_flag"]
          /\ frame' = frame
       \/ /\ cache' = cache
          /\ pc' = [pc EXCEPT ![p] = "gts_release"]
          /\ frame' = [frame EXCEPT ![p].completion = Threw("StorageError", NoAppState)]
    /\ UNCHANGED <<options, authFlag, lockHolder, transactions, now, issued,
                   stateCount, call, ret, exch>>

\* return authResult.access_token
ReturnAccessToken(authResult) ==
    IF authResult.kind = "undefined" THEN Threw("TypeError", NoAppState)
    ELSE Returned(authResult.access_token, NoAppState)

\* await ClientStorage.save('auth0.is.authenticated', true), then the return.
GTS_Flag(p) ==
    /\ pc[p] = "gts_flag"
    /\ authFlag' = TRUE
    /\ frame' = [frame EXCEPT ![p].completion = ReturnAccessToken(frame[p].authResult)]
    /\ pc' = [pc EXCEPT ![p] = "gts_release"]
    /\ UNCHANGED <<options, cache, lockHolder, transactions, now, issued,
                   stateCount, call, ret, exch>>

\* checkSession: the token is dropped; an error is swallowed when its code
\* is one of the recoverable ones, and thrown again otherwise.
RECOVERABLE_ERRORS == {"login_required", "consent_required",
                       "interaction_required", "account_selection_required",
                       "access_denied"}

CheckSessionResult(completion) ==
    IF completion.kind = "threw" /\ completion.error \notin RECOVERABLE_ERRORS
    THEN completion
    ELSE Returned(NoToken, NoAppState)

\* finally { await lock.releaseLock(KEY) }: on every way out of the try
\* block, the return from the cache included.
GTS_Release(p) ==
    /\ pc[p] = "gts_release"
    /\ ReleaseLock(p)
    /\ ret' = [ret EXCEPT ![p] =
                 IF call[p].op = "checkSession"
                 THEN CheckSessionResult(frame[p].completion)
                 ELSE frame[p].completion]
    /\ frame' = [frame EXCEPT ![p] = Finished(@)]
    /\ call' = [call EXCEPT ![p] = Ended(@)]
    /\ pc' = [pc EXCEPT ![p] = "done"]
    /\ UNCHANGED <<options, cache, authFlag, transactions, now, issued,
                   stateCount, exch>>

GetTokenSilently(p) ==
    \/ GTS_Start(p)
    \/ GTS_CacheGet(p)
    \/ GTS_Acquire(p)
    \/ GTS_RefreshCacheGet(p)
    \/ GTS_Exchange(p)
    \/ GTS_Save(p)
    \/ GTS_Flag(p)
    \/ GTS_Release(p)

\* ---------------------------------------------------- buildAuthorizeUrl
\* The appState a login passes: each login its own.
AppState(stateIn) == <<"appState", stateIn>>

\* A transaction that stores the audience as it was given.
RawAudience(a) == a

\* audience: params.audience || 'default'
TransactionAudience(a) == OrDefault(a)

\* createRandomString gives a state, a nonce and a code verifier no earlier
\* call got; the transaction is stored under the state.
BuildAuthorizeUrl ==
    /\ stateCount < MaxTx
    /\ \E o \in CallOptions :
          LET stateIn == stateCount + 1
              transaction ==
                 [nonce |-> stateIn, code_verifier |-> stateIn,
                  appState |-> AppState(stateIn),
                  scope |-> getUniqueScopes(defaultScope, thisScope, o.scope),
                  audience |-> TransactionAudience(
                                  IF o.audience # Undefined THEN o.audience
                                  ELSE options.audience),
                  redirect_uri |-> options.redirect_uri,
                  asked |-> o]
          IN  /\ transactions' =
                    [st \in DOMAIN transactions \cup {stateIn} |->
                        IF st = stateIn THEN transaction ELSE transactions[st]]
              /\ stateCount' = stateIn
    /\ UNCHANGED <<options, cache, authFlag, lockHolder, now, issued,
                   pc, call, frame, ret, exch>>

\* ------------------------------------------------ handleRedirectCallback
\* The callback URLs delivered: without a query string, or with a state
\* (0 is a state no login created) and possibly an error parameter.
ErrorParams == {Undefined, "access_denied"}

\* transaction-manager.ts: remove(state)
RemoveTransaction(st) ==
    [x \in DOMAIN transactions \ {st} |-> transactions[x]]

\* A removal that leaves the transaction in the store until it completes.
TransactionKept(st) == transactions

\* this.transactionManager.remove(state) is called in the turn of the
\* lookup: the store once the call has been made, before it is awaited
ConsumeTransaction(st) == RemoveTransaction(st)

\* A handler that does not look at the error parameter.
ErrorIgnored(err) == "hrc_removed"

\* if (error) { ... } : where the handler goes on after the lookup
AfterLookup(err) == IF err # Undefined THEN "hrc_error" ELSE "hrc_removed"

\* A store that hands out the transaction of another login in flight.
OtherTransaction(st) ==
    IF \E s \in DOMAIN transactions : s # st
    THEN transactions[CHOOSE s \in DOMAIN transactions : s # st]
    ELSE transactions[st]

\* this.transactionManager.get(state)
GetTransaction(st) == transactions[st]

\* From the call to the first await: the query string is parsed, the
\* transaction looked up and its removal started.
HRC_Start(p) ==
    /\ CanStart(p)
    /\ \E query \in BOOLEAN, st \in 0..MaxTx, err \in ErrorParams :
          /\ ~query => st = 0 /\ err = Undefined
          /\ call' = [call EXCEPT ![p] =
                 [NoCall EXCEPT !.op = "handleRedirectCallback", !.query = query,
                                !.state = st, !.error = err]]
          /\ IF ~query
             THEN /\ ret' = [ret EXCEPT ![p] = Threw("ParseError", NoAppState)]
                  /\ pc' = [pc EXCEPT ![p] = "done"]
                  /\ UNCHANGED <<frame, transactions>>
             ELSE IF st \notin DOMAIN transactions
             THEN /\ ret' = [ret EXCEPT ![p] = Threw("InvalidState", NoAppState)]
                  /\ pc' = [pc EXCEPT ![p] = "done"]
                  /\ UNCHANGED <<frame, transactions>>
             ELSE /\ frame' = [frame EXCEPT ![p] =
                        [NoFrame EXCEPT !.found = TRUE,
                                        !.transaction = GetTransaction(st)]]
                  /\ transactions' = ConsumeTransaction(st)
                  /\ pc' = [pc EXCEPT ![p] = AfterLookup(err)]
                  /\ ret' = ret
    /\ UNCHANGED <<options, cache, authFlag, lockHolder, now, issued,
                   stateCount, exch>>

\* An AuthenticationError built without the appState.
AuthenticationErrorBare(p) == Threw("AuthenticationError", NoAppState)

\* new AuthenticationError(error, error_description, state, transaction.appState)
AuthenticationError(p) ==
    Threw("AuthenticationError", frame[p].transaction.appState)

\* if (error) { await remove(state); throw new AuthenticationError(...) }
HRC_Error(p) ==
    /\ pc[p] = "hrc_error"
    /\ transactions' = RemoveTransaction(call[p].state)
    /\ ret' = [ret EXCEPT ![p] = AuthenticationError(p)]
    /\ frame' = [frame EXCEPT ![p] = Finished(@)]
    /\ pc' = [pc EXCEPT ![p] = "done"]
    /\ UNCHANGED <<options, cache, authFlag, lockHolder, now,
                   issued, stateCount, call, exch>>

\* The removal has completed: the authorization_code grant is sent.
HRC_Request(p) ==
    /\ pc[p] = "hrc_removed"
    /\ transactions' = RemoveTransaction(call[p].state)
    /\ frame' = [frame EXCEPT ![p].tokenOptions =
                    [code_verifier |-> frame[p].transaction.code_verifier,
                     redirect_uri |-> frame[p].transaction.redirect_uri]]
    /\ exch' = [exch EXCEPT ![p] = @ + 1]
    /\ pc' = [pc EXCEPT ![p] = "hrc_exchange"]
    /\ UNCHANGED <<options, cache, authFlag, lockHolder, now,
                   issued, stateCount, call, ret>>

\* The answer of oauthToken, then this._verifyIdToken(id_token, nonce), then
\* the cache entry is built and cache.save awaited.
HRC_Response(p) ==
    /\ pc[p] = "hrc_exchange"
    /\ \E resp \in TokenResponses :
          CASE resp = "failure" ->
                  /\ ret' = [ret EXCEPT ![p] = Threw("TransportError", NoAppState)]
                  /\ frame' = [frame EXCEPT ![p] = Finished(@)]
                  /\ pc' = [pc EXCEPT ![p] = "done"]
                  /\ issued' = issued
            [] resp = "bad_id_token" ->
                  /\ ret' = [ret EXCEPT ![p] = Threw("TokenVerificationError", NoAppState)]
                  /\ frame' = [frame EXCEPT ![p] = Finished(@)]
                  /\ pc' = [pc EXCEPT ![p] = "done"]
                  /\ issued' = issued
            [] OTHER ->
                  /\ frame' = [frame EXCEPT ![p].authResult =
                         Tokens(resp, frame[p].transaction.audience,
                                frame[p].transaction.scope)]
                  /\ pc' = [pc EXCEPT ![p] = "hrc_save"]
                  /\ issued' = issued + 1
                  /\ ret' = ret
    /\ UNCHANGED <<options, cache, authFlag, lockHolder, transactions, now,
                   stateCount, call, exch>>

\* await this.cache.save(cacheEntry); the storage may fail.
HRC_Save(p) ==
    /\ pc[p] = "hrc_save"
    /\ \/ /\ cache' = cacheSave(EntryKey(frame[p].authResult),
                                EntryRecord(frame[p].authResult))
          /\ pc' = [pc EXCEPT ![p] = "hrc_flag"]
          /\ UNCHANGED <<frame, ret>>
       \/ /\ cache' = cache
          /\ ret' = [ret EXCEPT ![p] = Threw("StorageError", NoAppState)]
          /\ frame' = [frame EXCEPT ![p] = Finished(@)]
          /\ pc' = [pc EXCEPT ![p] = "done"]
    /\ UNCHANGED <<options, authFlag, lockHolder, transactions, now, issued,
                   stateCount, call, exch>>

\* await ClientStorage.save('auth0.is.authenticated', true);
\* return { appState: transaction.appState }
HRC_Flag(p) ==
    /\ pc[p] = "hrc_flag"
    /\ authFlag' = TRUE
    /\ ret' = [ret EXCEPT ![p] = Returned(NoToken, frame[p].transaction.appState)]
    /\ frame' = [frame EXCEPT ![p] = Finished(@)]
    /\ pc' = [pc EXCEPT ![p] = "done"]
    /\ UNCHANGED <<options, cache, lockHolder, transactions, now, issued,
                   stateCount, call, exch>>

HandleRedirectCallback(p) ==
    \/ HRC_Start(p)
    \/ HRC_Error(p)
    \/ HRC_Request(p)
    \/ HRC_Response(p)
    \/ HRC_Save(p)
    \/ HRC_Flag(p)

\* ---------------------------------------------------------- checkSession
\* A call of checkSession: ClientStorage.get('auth0.is.authenticated') is
\* awaited.
CS_Start(p) ==
    /\ CanStart(p)
    /\ \E t \in FreshTabs, ic \in BOOLEAN, o \in CallOptions :
          call' = [call EXCEPT ![p] =
                 [NoCall EXCEPT !.op = "checkSession", !.tab = t,
                                !.ignoreCache = ic, !.audience = o.audience,
                                !.scope = o.scope]]
    /\ pc' = [pc EXCEPT ![p] = "cs_flag"]
    /\ UNCHANGED <<options, cache, authFlag, lockHolder, transactions, now,
                   issued, stateCount, frame, ret, exch>>

\* if (!flag) return; otherwise getTokenSilently(options) is entered.
CS_Flag(p) ==
    /\ pc[p] = "cs_flag"
    /\ IF ~authFlag
       THEN /\ ret' = [ret EXCEPT ![p] = Returned(NoToken, NoAppState)]
            /\ call' = [call EXCEPT ![p] = Ended(@)]
            /\ pc' = [pc EXCEPT ![p] = "done"]
            /\ frame' = frame
       ELSE /\ GTS_Enter(p, call[p].ignoreCache,
                         [scope |-> call[p].scope, audience |-> call[p].audience])
            /\ UNCHANGED <<ret, call>>
    /\ UNCHANGED <<options, cache, authFlag, lockHolder, transactions, now,
                   issued, stateCount, exch>>

CheckSession(p) ==
    \/ CS_Start(p)
    \/ CS_Flag(p)

\* ----------------------------------------------------------------- logout
LogoutOptions == [federated : BOOLEAN, localOnly : BOOLEAN]

\* what logout returns when it does not navigate: the logout URL
LogoutUrl == -1

\* A logout that accepts every combination of options.
AnyLogoutOptions(o) == FALSE

\* if (localOnly && federated) throw
InvalidLogoutOptions(o) == o.localOnly /\ o.federated

\* No other call is in progress, and none began since the tasks before
\* this one completed.
Alone(p) ==
    \A q \in Procs \ {p} : IF q < p THEN pc[q] = "done" ELSE pc[q] = "idle"

\* The tasks suspended in a token exchange.
Exchanging == {q \in Procs : pc[q] \in {"gts_exchange", "hrc_exchange"}}

\* A call of logout: the options are checked and cache.clear() awaited.
LG_Start(p) ==
    /\ CanStart(p)
    /\ \E o \in LogoutOptions :
          /\ call' = [call EXCEPT ![p] =
                 [NoCall EXCEPT !.op = "logout", !.federated = o.federated,
                                !.localOnly = o.localOnly]]
          /\ IF InvalidLogoutOptions(o)
             THEN /\ ret' = [ret EXCEPT ![p] = Threw("InvalidOptions", NoAppState)]
                  /\ pc' = [pc EXCEPT ![p] = "done"]
                  /\ frame' = frame
             ELSE /\ ret' = ret
                  /\ pc' = [pc EXCEPT ![p] = "lg_clear"]
                  /\ frame' = [frame EXCEPT ![p] =
                                  [NoFrame EXCEPT !.alone = Alone(p),
                                                  !.exchanging = Exchanging]]
    /\ UNCHANGED <<options, cache, authFlag, lockHolder, transactions, now,
                   issued, stateCount, exch>>

\* cache.clear(): no record is left
ClearedCache == <<>>

\* A logout without the call of cache.clear().
LG_ClearSkipped(p) ==
    /\ pc[p] = "lg_clear"
    /\ frame' = [frame EXCEPT ![p].alone = @ /\ Alone(p)]
    /\ pc' = [pc EXCEPT ![p] = "lg_flag"]
    /\ UNCHANGED <<options, cache, authFlag, lockHolder, transactions, now,
                   issued, stateCount, call, ret, exch>>

\* await this.cache.clear(); ClientStorage.remove is awaited next.
LG_Clear(p) ==
    /\ pc[p] = "lg_clear"
    /\ cache' = ClearedCache
    /\ frame' = [frame EXCEPT ![p].alone = @ /\ Alone(p)]
    /\ pc' = [pc EXCEPT ![p] = "lg_flag"]
    /\ UNCHANGED <<options, authFlag, lockHolder, transactions, now, issued,
                   stateCount, call, ret, exch>>

\* await ClientStorage.remove('auth0.is.authenticated'); then null, or the
\* logout URL (returned, or navigated to).
LG_Flag(p) ==
    /\ pc[p] = "lg_flag"
    /\ authFlag' = FALSE
    /\ ret' = [ret EXCEPT ![p] =
                 Returned(IF call[p].localOnly THEN NoToken ELSE LogoutUrl,
                          NoAppState)]
    /\ frame' = [frame EXCEPT ![p] =
                    [NoFrame EXCEPT !.alone = frame[p].alone /\ Alone(p),
                                    !.mark = issued,
                                    !.exchanging = frame[p].exchanging]]
    /\ pc' = [pc EXCEPT ![p] = "done"]
    /\ UNCHANGED <<options, cache, lockHolder, transactions, now, issued,
                   stateCount, call, exch>>

Logout(p) ==
    \/ LG_Start(p)
    \/ LG_Clear(p)
    \/ LG_Flag(p)

Next ==
    \/ Tick
    \/ BuildAuthorizeUrl
    \/ \E p \in Procs : GetTokenSilently(p)
    \/ \E p \in Procs : HandleRedirectCallback(p)

Spec == Init /\ [][Next]_vars

\* ------------------------------------------- getUser, getIdTokenClaims
\* The options argument of a cache-reading call: absent, or given with an
\* audience that is undefined or "default" and a scope.
ReaderOptions ==
    [given : BOOLEAN, audience : {Undefined, "default"},
     scope : {<<>>, <<"offline_access">>}]

\* The argument as the method sees it: the default parameter value stands in
\* for an absent argument.
UserOptions(o) ==
    IF o.given THEN o
    ELSE [given |-> FALSE, audience |-> OrDefault(options.audience),
          scope |-> IF thisScope # <<>> THEN thisScope ELSE defaultScope]

\* A call of getUser(options): the scope is normalised and cache.get awaited.
GU_Start(p) ==
    /\ CanStart(p)
    /\ \E o \in ReaderOptions :
          /\ ~o.given => (o.audience = Undefined /\ o.scope = <<>>)
          /\ call' = [call EXCEPT ![p] =
                 [NoCall EXCEPT !.op = "getUser", !.given = o.given,
                                !.audience = o.audience, !.scope = o.scope]]
          /\ frame' = [frame EXCEPT ![p] =
                 [NoFrame EXCEPT
                    !.audience = UserOptions(o).audience,
                    !.scope = getUniqueScopes(defaultScope, UserOptions(o).scope, <<>>)]]
    /\ pc' = [pc EXCEPT ![p] = "gu_get"]
    /\ UNCHANGED <<options, cache, authFlag, lockHolder, transactions, now,
                   issued, stateCount, ret, exch>>

\* A call of getIdTokenClaims(options).
GIC_Start(p) ==
    /\ CanStart(p)
    /\ \E o \in ReaderOptions :
          /\ ~o.given => (o.audience = Undefined /\ o.scope = <<>>)
          /\ call' = [call EXCEPT ![p] =
                 [NoCall EXCEPT !.op = "getIdTokenClaims", !.given = o.given,
                                !.audience = o.audience, !.scope = o.scope]]
          /\ frame' = [frame EXCEPT ![p] =
                 [NoFrame EXCEPT
                    !.audience = UserOptions(o).audience,
                    !.scope = getUniqueScopes(defaultScope, thisScope,
                                              UserOptions(o).scope)]]
    /\ pc' = [pc EXCEPT ![p] = "gic_get"]
    /\ UNCHANGED <<options, cache, authFlag, lockHolder, transactions, now,
                   issued, stateCount, ret, exch>>

\* cache.get({client_id, ...options}): the record read is told by its
\* access token; the call returns what was decoded from its ID token.
ReadDecodedToken(p) ==
    /\ ret' = [ret EXCEPT ![p] =
          Returned(cacheGet(CacheKey(frame[p].audience, frame[p].scope), 0).access_token,
                   NoAppState)]
    /\ frame' = [frame EXCEPT ![p] = Finished(@)]
    /\ pc' = [pc EXCEPT ![p] = "done"]
    /\ UNCHANGED <<options, cache, authFlag, lockHolder, transactions, now,
                   issued, stateCount, call, exch>>

GU_Get(p) == pc[p] = "gu_get" /\ ReadDecodedToken(p)

GIC_Get(p) == pc[p] = "gic_get" /\ ReadDecodedToken(p)

GetUser(p) ==
    \/ GU_Start(p)
    \/ GU_Get(p)

GetIdTokenClaims(p) ==
    \/ GIC_Start(p)
    \/ GIC_Get(p)

\* A call of getTokenSilently with an audience option that is undefined or
\* "default".
GTS_StartDefault(p) ==
    /\ CanStart(p)
    /\ \E a \in {Undefined, "default"} :
          /\ call' = [call EXCEPT ![p] =
                 [NoCall EXCEPT !.op = "getTokenSilently", !.tab = 1,
                                !.audience = a]]
          /\ GTS_Enter(p, FALSE, [scope |-> <<>>, audience |-> a])
    /\ UNCHANGED <<options, cache, authFlag, lockHolder, transactions, now,
                   issued, stateCount, ret, exch>>

\* The cache-reading calls, beside the logins and renewals that write.
ReadNext ==
    \/ BuildAuthorizeUrl
    \/ \E p \in Procs : HandleRedirectCallback(p)
    \/ \E p \in Procs : GetUser(p)
    \/ \E p \in Procs : GetIdTokenClaims(p)
    \/ \E p \in Procs :
          \/ GTS_StartDefault(p)
          \/ GTS_CacheGet(p)
          \/ GTS_Acquire(p)
          \/ GTS_RefreshCacheGet(p)
          \/ GTS_Exchange(p)
          \/ GTS_Save(p)
          \/ GTS_Flag(p)
          \/ GTS_Release(p)

ReadSpec == Init /\ [][ReadNext]_vars

\* The session operations with the token operations they run beside.
SessionNext ==
    \/ BuildAuthorizeUrl
    \/ \E p \in Procs : Logout(p)
    \/ \E p \in Procs : CheckSession(p)
    \/ \E p \in Procs : GetTokenSilently(p)
    \/ \E p \in Procs : HandleRedirectCallback(p)

SessionSpec == Init /\ [][SessionNext]_vars

\* ================================================================ claims
IsGTS(p) == call[p].op = "getTokenSilently"
IsHRC(p) == call[p].op = "handleRedirectCallback"

\* Between the acquireLock line and the end of releaseLock.
InSection(p) == IsGTS(p) /\ frame[p].entered /\ pc[p] # "done"

\* C1: N simultaneous getTokenSilently calls without a usable cached token,
\* refresh tokens enabled, make exactly one refresh-token exchange, and all
\* get the same access token.  Stated for two calls that both read the cache
\* and missed, where q waited for the lock while p sent its exchange, p's
\* exchange succeeded, and q then acquired the lock.
C1_SingleFlight ==
    \A p, q \in Procs :
        ( /\ q \in frame[p].waiters
          /\ IsGTS(q) /\ CanUseRefreshToken(q)
          /\ ~call[p].ignoreCache /\ ~call[q].ignoreCache
          /\ frame[q].acquired
          /\ pc[p] = "done" /\ ret[p].kind = "returned"
          /\ pc[q] = "done" )
        => exch[p] + exch[q] = 1 /\ ret[q] = ret[p]

\* C2: at most one getTokenSilently call is between lock acquisition and
\* lock release at any moment.
C2_MutualExclusion ==
    \A p, q \in Procs : (p # q /\ InSection(p)) => ~InSection(q)

\* The key a getTokenSilently call reads, from its arguments.
ReadKey(p) ==
    CacheKey(OrDefault(IF call[p].audience # Undefined THEN call[p].audience
                       ELSE options.audience),
             getUniqueScopes(defaultScope, thisScope, call[p].scope))

\* A record with an access token more than 60 seconds from its expiry.
HasFreshToken(k) ==
    /\ k \in DOMAIN cache
    /\ cache[k].access_token # NoToken
    /\ cache[k].expiresAt - now > 60

\* C3: when the cache holds a record for the call's key whose expiry is more
\* than 60 seconds away and ignoreCache is not set, getTokenSilently returns
\* that access token: the read decides it, no token request is made then or
\* later, and the lock section is never entered.
C3_CacheHitReturnsCached ==
    [][ \A p \in Procs :
          /\ ( /\ pc[p] = "gts_cache" /\ pc'[p] # "gts_cache"
               /\ ~call[p].ignoreCache /\ HasFreshToken(ReadKey(p)) )
             => /\ frame'[p].fromCache
                /\ frame'[p].completion =
                      Returned(cache[ReadKey(p)].access_token, NoAppState)
          /\ frame[p].fromCache
             => /\ exch'[p] = 0
                /\ ~frame'[p].entered
                /\ pc'[p] # pc[p]
                   => /\ cache' = cache
                      /\ pc'[p] = "done"
                      /\ ret'[p] = frame[p].completion
      ]_vars

C3_Witness ==
    \E p \in Procs :
        /\ IsGTS(p) /\ pc[p] = "done" /\ frame[p].fromCache
        /\ ret[p].kind = "returned" /\ ret[p].value # NoToken
        /\ exch[p] = 0

\* C4: the first handleRedirectCallback for a callback URL consumes the
\* transaction; a later one for the same URL finds none, fails with the
\* invalid-state error and makes no token request.
C4_SecondCallbackInvalidState ==
    \A p, q \in Procs :
        ( /\ IsHRC(p) /\ IsHRC(q) /\ p # q
          /\ call[p].query /\ call[q].query
          /\ call[p].state = call[q].state
          /\ frame[p].found )
        => /\ call[p].state \notin DOMAIN transactions
           /\ ~frame[q].found
           /\ pc[q] = "done"
           /\ ret[q] = Threw("InvalidState", NoAppState)
           /\ exch[q] = 0

C4_Witness ==
    \E p, q \in Procs :
        /\ p < q /\ IsHRC(p) /\ IsHRC(q)
        /\ call[p].state = call[q].state /\ call[p].error = call[q].error
        /\ pc[p] = "done" /\ ret[p].kind = "returned"
        /\ pc[q] = "done" /\ ret[q].error = "InvalidState"

\* C5: handleRedirectCallback on a URL with an error parameter and a known
\* state makes no token request, deletes the transaction, fails with an
\* AuthenticationError, and leaves the cache and the flag as they are.
C5_ErrorCallback ==
    [][ \A p \in Procs :
          ( /\ call'[p].op = "handleRedirectCallback"
            /\ call'[p].error # Undefined
            /\ frame'[p].found
            /\ pc'[p] # pc[p] )
          => /\ exch'[p] = 0
             /\ cache' = cache
             /\ authFlag' = authFlag
             /\ call'[p].state \notin DOMAIN transactions'
             /\ pc'[p] = "done" => ret'[p].error = "AuthenticationError"
      ]_vars

C5_Witness ==
    \E p \in Procs :
        /\ IsHRC(p) /\ pc[p] = "done" /\ call[p].error # Undefined
        /\ frame[p].found /\ ret[p].error = "AuthenticationError"
        /\ call[p].state \notin DOMAIN transactions

\* A handleRedirectCallback call that found its transaction and failed.
FailedAfterLookup(p) ==
    IsHRC(p) /\ pc[p] = "done" /\ frame[p].found /\ ret[p].kind = "threw"

\* C6 as claimed: every failure of handleRedirectCallback after the
\* transaction was found preserves the appState, in the error or in a
\* transaction that can still be read.
C6_EveryFailureKeepsAppState ==
    \A p \in Procs :
        FailedAfterLookup(p)
        => \/ ret[p].appState = AppState(call[p].state)
           \/ call[p].state \in DOMAIN transactions

\* C6 as amended: the failure on the server's error parameter carries the
\* transaction's appState; a failure of the exchange, of the verification or
\* of the cache write carries none, and the transaction is gone.
C6_ErrorParameterKeepsAppState ==
    \A p \in Procs :
        FailedAfterLookup(p)
        => IF call[p].error # Undefined
           THEN ret[p].appState = AppState(call[p].state)
           ELSE /\ ret[p].appState = NoAppState
                /\ call[p].state \notin DOMAIN transactions

C6_Witness ==
    \E p, q \in Procs :
        /\ FailedAfterLookup(p) /\ call[p].error # Undefined
        /\ ret[p].appState = AppState(call[p].state)
        /\ FailedAfterLookup(q) /\ call[q].error = Undefined
        /\ ret[q].error = "TokenVerificationError"

\* The call ended, and not on a failure of the storage under the cache.
EndedPastStorage(p) == pc[p] = "done" /\ ret[p].error # "StorageError"

\* C7: on a cache miss (or ignoreCache), without refresh tokens or with an
\* explicit audience, getTokenSilently fails with a LoginRequired-class
\* error: it does not complete normally.
C7_LoginRequired ==
    \A p \in Procs :
        ( /\ IsGTS(p) /\ EndedPastStorage(p)
          /\ frame[p].entered /\ ~CanUseRefreshToken(p) )
        => ret[p].kind = "threw" /\ ret[p].error = "LoginRequiredError"

\* C8: with refresh tokens usable but no refresh token in the cache,
\* getTokenSilently fails with MissingRefreshTokenError, without a token
\* request.
C8_MissingRefreshToken ==
    \A p \in Procs :
        ( /\ IsGTS(p) /\ EndedPastStorage(p)
          /\ frame[p].entered /\ CanUseRefreshToken(p) /\ exch[p] = 0 )
        => ret[p].kind = "threw" /\ ret[p].error = "MissingRefreshTokenError"

\* C9: a getTokenSilently call whose lock acquisition timed out sends no
\* refresh-token request, and fails with a timeout error.
C9_TimeoutFails ==
    \A p \in Procs :
        (IsGTS(p) /\ frame[p].entered /\ ~frame[p].acquired)
        => /\ exch[p] = 0
           /\ pc[p] = "done" => ret[p].error = "TimeoutError"

IsLogout(p) == call[p].op = "logout"
IsCheckSession(p) == call[p].op = "checkSession"

\* C11: logout called with both federated and localOnly fails at once: the
\* step that makes the call ends it with an error and no logout URL, the
\* cache and the authenticated flag are what they were, and the call takes
\* no later step.
C11_InvalidLogoutClearsNothing ==
    [][ \A p \in Procs :
          ( /\ call'[p].op = "logout"
            /\ call'[p].federated /\ call'[p].localOnly )
          => /\ pc'[p] = "done"
             /\ ret'[p].kind = "threw"
             /\ ret'[p].value # LogoutUrl
             /\ pc[p] # "done" => (cache' = cache /\ authFlag' = authFlag)
      ]_vars

C11_Witness ==
    \E p \in Procs :
        /\ IsLogout(p) /\ call[p].federated /\ call[p].localOnly
        /\ pc[p] = "done" /\ ret[p].kind = "threw"
        /\ cache # <<>> /\ authFlag

\* A logout call that completed without failing, with no other call in
\* progress at any time between its start and its completion.
LoggedOutAlone(p) ==
    /\ IsLogout(p) /\ pc[p] = "done" /\ ret[p].kind = "returned"
    /\ frame[p].alone

\* Every task after q has yet to make its call.
NoLaterCall(q) == \A r \in Procs : r > q => pc[r] = "idle"

\* C12: after a logout that does not fail, the cache holds no record and the
\* authenticated flag is cleared; a getTokenSilently (or checkSession) call
\* made afterwards never returns a token issued before the logout, and a
\* checkSession made next makes no token request and never enters
\* getTokenSilently.
C12_LogoutClearsSession ==
    \A p \in Procs :
        LoggedOutAlone(p)
        => /\ NoLaterCall(p) => (cache = <<>> /\ ~authFlag)
           /\ \A q \in Procs :
                 (q > p /\ (IsGTS(q) \/ IsCheckSession(q)))
                 => /\ frame[q].completion.value \in {NoToken} \cup
                          {t \in 1..issued : t > frame[p].mark}
                    /\ ret[q].value \in {NoToken} \cup
                          {t \in 1..issued : t > frame[p].mark}
           /\ \A q \in Procs :
                 (q = p + 1 /\ IsCheckSession(q) /\ NoLaterCall(q))
                 => /\ exch[q] = 0
                    /\ ~frame[q].entered
                    /\ pc[q] \in {"cs_flag", "done"}
                    /\ pc[q] = "done" => ret[q] = Returned(NoToken, NoAppState)

C12_Witness ==
    \E p, q \in Procs :
        /\ LoggedOutAlone(p) /\ frame[p].mark >= 1
        /\ q = p + 1 /\ pc[q] = "done"
        /\ \/ IsCheckSession(q)
           \/ IsGTS(q) /\ ~call[q].ignoreCache /\ frame[q].entered

\* The task p writes the authenticated flag in this step.
WritesFlag(p) == pc[p] \in {"gts_flag", "hrc_flag"} /\ pc'[p] # pc[p]

\* C13: the authenticated flag is set to true only by a call holding the
\* tokens of a successful, verified exchange, and that call then succeeds.
C13_FlagOnlyOnTokens ==
    [][ \A p \in Procs :
          (WritesFlag(p) /\ authFlag')
          => /\ frame[p].authResult.kind = "tokens"
             /\ frame[p].authResult.access_token # NoToken
             /\ exch[p] > 0
      ]_vars

\* The task p takes a step in which the cache changes.
WritesCache(p) == pc'[p] # pc[p] /\ cache' # cache

\* C14: a record is created or overwritten only by a call holding the tokens
\* of a successful exchange, under the audience and scope of that exchange;
\* a silent renewal that did not refresh leaves the cache as it is.
C14_RecordOnlyOnTokens ==
    [][ \A p \in Procs :
          (WritesCache(p) /\ (IsGTS(p) \/ IsHRC(p)))
          => /\ frame[p].authResult.kind = "tokens"
             /\ exch[p] > 0
             /\ LET k == EntryKey(frame[p].authResult)
                IN  /\ k[2] # Undefined
                    /\ k \in DOMAIN cache'
                    /\ cache'[k].access_token = frame[p].authResult.access_token
                    /\ cache'[k].access_token # NoToken
      ]_vars

IsReader(p) == call[p].op \in {"getUser", "getIdTokenClaims"}

\* The record a call with scope sc finds under the audience "default".
DefaultEntry(sc, adjust) == cacheGet(CacheKey("default", sc), adjust)

\* C15: for a client without a configured audience, a cache-reading call
\* made with audience undefined or with audience "default" reads the entry
\* kept under the audience "default" and the call's scope, and that is the
\* entry a login or a refresh without audience writes.
C15_AudienceDefaults ==
    [][ \A p \in Procs :
          /\ ( /\ IsReader(p) /\ pc[p] \in {"gu_get", "gic_get"}
               /\ pc'[p] = "done" )
             => ret'[p].value = DefaultEntry(frame[p].scope, 0).access_token
          /\ ( /\ IsGTS(p) /\ pc[p] = "gts_cache" /\ pc'[p] # "gts_cache"
               /\ call[p].audience \in {Undefined, "default"} )
             => IF DefaultEntry(frame[p].scope, 60).access_token # NoToken
                THEN /\ frame'[p].fromCache
                     /\ frame'[p].completion.value =
                           DefaultEntry(frame[p].scope, 60).access_token
                ELSE ~frame'[p].fromCache
          /\ ( /\ WritesCache(p) /\ frame[p].authResult.kind = "tokens"
               /\ \/ IsGTS(p) /\ call[p].audience = Undefined
                  \/ IsHRC(p) /\ frame[p].transaction.audience # "api" )
             => EntryKey(frame[p].authResult)[2] = "default"
      ]_vars

\* Two deliveries of one callback: handleRedirectCallback calls on URLs with
\* the same state, a state that a login created.
SameCallback(p, q) ==
    /\ p # q /\ IsHRC(p) /\ IsHRC(q)
    /\ call[p].query /\ call[q].query
    /\ call[p].state = call[q].state /\ call[p].state >= 1

\* C16: of two deliveries of the same callback, however their steps
\* interleave, at most one finds the transaction and at most one token
\* request is made; the other fails with the invalid-state error.
C16_OneExchangePerTransaction ==
    \A p, q \in Procs :
        SameCallback(p, q)
        => /\ ~(frame[p].found /\ frame[q].found)
           /\ exch[p] + exch[q] <= 1
           /\ exch[p] = 1 => (pc[q] = "done" /\ ret[q].error = "InvalidState")

\* The second delivery arrived while the first was suspended in its token
\* exchange.
C16_Witness ==
    \E p, q \in Procs :
        /\ SameCallback(p, q)
        /\ pc[p] = "hrc_exchange" /\ exch[p] = 1
        /\ call[q].error = Undefined
        /\ pc[q] = "done" /\ ret[q].error = "InvalidState" /\ exch[q] = 0

\* The transaction of state s holds the values buildAuthorizeUrl made for s.
CreatedFor(t, s) ==
    t.nonce = s /\ t.code_verifier = s /\ t.appState = AppState(s)

\* C17: handleRedirectCallback for state s takes the transaction stored for
\* s, and no other: it sends that transaction's code_verifier and
\* redirect_uri, verifies against its nonce, and saves the tokens under its
\* audience and scope.  A stored transaction is never altered.
C17_TransactionBinding ==
    [][ /\ \A s \in DOMAIN transactions :
              /\ CreatedFor(transactions[s], s)
              /\ s \in DOMAIN transactions' => transactions'[s] = transactions[s]
        /\ \A p \in Procs :
              /\ (pc[p] = "idle" /\ frame'[p].found)
                 => frame'[p].transaction = transactions[call'[p].state]
              /\ (IsHRC(p) /\ frame[p].found /\ pc'[p] # "done")
                 => frame'[p].transaction = frame[p].transaction
              /\ (IsHRC(p) /\ pc[p] = "hrc_removed" /\ pc'[p] = "hrc_exchange")
                 => frame'[p].tokenOptions =
                       [code_verifier |-> call[p].state,
                        redirect_uri |-> frame[p].transaction.redirect_uri]
              /\ (IsHRC(p) /\ pc[p] = "hrc_exchange" /\ pc'[p] = "hrc_save")
                 => /\ frame[p].transaction.nonce = call[p].state
                    /\ frame'[p].authResult.audience = frame[p].transaction.audience
                    /\ frame'[p].authResult.scope = frame[p].transaction.scope
              /\ (IsHRC(p) /\ pc[p] = "hrc_save" /\ pc'[p] = "hrc_flag")
                 => LET k == CacheKey(frame[p].transaction.audience,
                                      frame[p].transaction.scope)
                    IN  /\ k \in DOMAIN cache'
                        /\ cache'[k].access_token = frame[p].authResult.access_token
                        /\ \A j \in DOMAIN cache' \ {k} :
                              j \in DOMAIN cache /\ cache'[j] = cache[j]
      ]_vars

\* A callback saved its tokens while another login, for another audience,
\* was in flight.
C17_Witness ==
    \E p \in Procs : \E s \in DOMAIN transactions :
        /\ IsHRC(p) /\ pc[p] = "hrc_flag" /\ call[p].state # s
        /\ transactions[s].audience # frame[p].transaction.audience
        /\ CacheKey(frame[p].transaction.audience, frame[p].transaction.scope)
              \in DOMAIN cache

\* C18: a getTokenSilently call answered from the cache leaves the lock as
\* it is: no step of it takes the lock or frees it.
C18_CacheHitLeavesLock ==
    [][ \A p \in Procs :
          (IsGTS(p) /\ frame[p].fromCache /\ pc'[p] # pc[p])
          => lockHolder' = lockHolder
      ]_vars

\* C19: a logout p was called while a renewal or a callback q was suspended
\* in its token exchange; q obtained tokens, both have finished, and no
\* other call was made: the cache holds no record and the authenticated
\* flag is not set.
C19_LogoutWins ==
    \A p, q \in Procs :
        ( /\ IsLogout(p) /\ pc[p] = "done" /\ ret[p].kind = "returned"
          /\ q \in frame[p].exchanging /\ (IsGTS(q) \/ IsHRC(q))
          /\ pc[q] = "done" /\ ret[q].kind = "returned" /\ exch[q] = 1
          /\ \A r \in Procs \ {p, q} : pc[r] = "idle" )
        => (cache = <<>> /\ ~authFlag)

\* The key getTokenSilently reads for per-call options o.
RequestKey(o) ==
    CacheKey(OrDefault(IF o.audience # Undefined THEN o.audience
                       ELSE options.audience),
             getUniqueScopes(defaultScope, thisScope, o.scope))

\* The per-call scope and audience of a call.
Asked(p) == [scope |-> call[p].scope, audience |-> call[p].audience]

\* C20: a credential is written under the key a later getTokenSilently with
\* the same scope and audience reads.  A callback saves its tokens under the
\* key of the options its login was built with, a refresh under the key of
\* its call's options; and a getTokenSilently call that finds, under the key
\* of its options, a token more than 60 seconds from expiry returns that
\* token from the cache and makes no token request.
C20_WriteKeyIsReadKey ==
    [][ \A p \in Procs :
          /\ (IsHRC(p) /\ pc[p] = "hrc_save" /\ pc'[p] = "hrc_flag")
             => LET k == RequestKey(frame[p].transaction.asked)
                IN  /\ k \in DOMAIN cache'
                    /\ cache'[k].access_token = frame[p].authResult.access_token
                    /\ cache'[k].expiresAt = now + ExpiresIn
          /\ ( /\ IsGTS(p) /\ pc[p] = "gts_save" /\ pc'[p] = "gts_flag"
               /\ frame[p].authResult.kind = "tokens" )
             => LET k == RequestKey(Asked(p))
                IN  /\ k \in DOMAIN cache'
                    /\ cache'[k].access_token = frame[p].authResult.access_token
                    /\ cache'[k].expiresAt = now + ExpiresIn
          /\ ( /\ IsGTS(p) /\ pc[p] = "gts_cache" /\ pc'[p] # "gts_cache"
               /\ HasFreshToken(RequestKey(Asked(p))) )
             => /\ frame'[p].fromCache
                /\ frame'[p].completion =
                      Returned(cache[RequestKey(Asked(p))].access_token, NoAppState)
                /\ exch'[p] = 0
                /\ pc'[p] = "gts_release"
      ]_vars

\* A refresh obtained a token, and a later call with the same options got
\* that token from the cache.
C20_Witness ==
    \E p, q \in Procs :
        /\ p < q /\ IsGTS(p) /\ IsGTS(q)
        /\ pc[p] = "done" /\ exch[p] = 1 /\ ret[p].kind = "returned"
        /\ ret[p].value # NoToken
        /\ pc[q] = "done" /\ frame[q].fromCache /\ exch[q] = 0
        /\ ret[q] = ret[p]

====
